---------------------------- MODULE Spec2Model ----------------------------
(***************************************************************************)
(* rebootstrap-raft: the command that recreates an empty raft directory    *)
(* seeded with the current replica-set members (src/rebootstrap-raft/      *)
(* main.go, the final form at lines 300-681).                              *)
(*                                                                         *)
(* Strings of the program are sequences of one-character strings, so that  *)
(* path joining, prefix trimming and integer parsing are computed the way  *)
(* the program computes them.                                              *)
(***************************************************************************)
EXTENDS Integers, Sequences, FiniteSets, TLC

VARIABLES
  c,       \* the rebootstrapCommand struct (flags and asSnap)
  fs,      \* the filesystem: cleaned absolute path -> node
  pc,      \* position of Run: "idle" before an invocation, "done" after
  err,     \* the error Run returns, as its chain of annotations; <<>> = nil
  steps,   \* the steps this invocation has attempted, in order
  fsOps,   \* the filesystem calls of this invocation: [op, path]
  logs,    \* logger lines and error parts shown to the operator: [msg, arg]
  db,      \* the database side: dials, open sessions, fetches, members
  servers, \* the raft.Configuration built by makeRaftServers
  fs0,     \* the filesystem as it was when this invocation started
  call,    \* the last direct call of a helper and what it returned
  raftConfig \* the *raft.Config built by makeRaftConfig

vars == <<c, fs, pc, err, steps, fsOps, logs, db, servers, fs0, call, raftConfig>>

----------------------------------------------------------------------------
(* Strings *)

Digits == <<"0", "1", "2", "3", "4", "5", "6", "7", "8", "9">>

IsDigit(ch) == \E i \in 1..Len(Digits) : Digits[i] = ch

DigitVal(ch) == (CHOOSE i \in 1..Len(Digits) : Digits[i] = ch) - 1

\* strings.HasPrefix
HasPrefix(s, prefix) ==
  /\ Len(s) >= Len(prefix)
  /\ SubSeq(s, 1, Len(prefix)) = prefix

\* strings.TrimPrefix
TrimPrefix(s, prefix) ==
  IF HasPrefix(s, prefix) THEN SubSeq(s, Len(prefix) + 1, Len(s)) ELSE s

\* strconv.Itoa, for the non-negative numbers the program prints
RECURSIVE Itoa(_)
Itoa(n) ==
  IF n < 10 THEN <<Digits[n + 1]>>
  ELSE Itoa(n \div 10) \o <<Digits[(n % 10) + 1]>>

\* strconv.Atoi: an optional sign, then one or more decimal digits.
\* Returns [ok, n].
RECURSIVE AtoiDigits(_, _)
AtoiDigits(s, n) ==
  IF s = <<>> THEN [ok |-> TRUE, n |-> n]
  ELSE IF ~IsDigit(Head(s)) THEN [ok |-> FALSE, n |-> 0]
  ELSE AtoiDigits(Tail(s), n * 10 + DigitVal(Head(s)))

Atoi(s) ==
  IF s = <<>> THEN [ok |-> FALSE, n |-> 0]
  ELSE LET signed == Head(s) \in {"-", "+"}
           body   == IF signed THEN Tail(s) ELSE s
           r      == AtoiDigits(body, 0)
       IN  IF body = <<>> \/ ~r.ok THEN [ok |-> FALSE, n |-> 0]
           ELSE [ok |-> TRUE, n |-> IF Head(s) = "-" THEN 0 - r.n ELSE r.n]

----------------------------------------------------------------------------
(* Paths: path/filepath on a Unix host *)

\* the non-empty components of a path between its separators
RECURSIVE Comps(_, _)
Comps(s, cur) ==
  IF s = <<>> THEN (IF cur = <<>> THEN <<>> ELSE <<cur>>)
  ELSE IF Head(s) = "/"
       THEN (IF cur = <<>> THEN <<>> ELSE <<cur>>) \o Comps(Tail(s), <<>>)
       ELSE Comps(Tail(s), Append(cur, Head(s)))

\* filepath.Clean's pass over the components: "." is dropped, ".." removes
\* the component before it, is dropped at the root, and is kept at the
\* start of a relative path.
RECURSIVE CleanComps(_, _, _)
CleanComps(comps, out, rooted) ==
  IF comps = <<>> THEN out
  ELSE LET x == Head(comps) IN
       IF x = <<".">> THEN CleanComps(Tail(comps), out, rooted)
       ELSE IF x = <<".", ".">>
       THEN IF out # <<>> /\ out[Len(out)] # <<".", ".">>
            THEN CleanComps(Tail(comps), SubSeq(out, 1, Len(out) - 1), rooted)
            ELSE IF rooted THEN CleanComps(Tail(comps), out, rooted)
            ELSE CleanComps(Tail(comps), Append(out, x), rooted)
       ELSE CleanComps(Tail(comps), Append(out, x), rooted)

RECURSIVE JoinComps(_)
JoinComps(comps) ==
  IF comps = <<>> THEN <<>>
  ELSE IF Len(comps) = 1 THEN comps[1]
  ELSE comps[1] \o <<"/">> \o JoinComps(Tail(comps))

\* filepath.Clean
Clean(path) ==
  IF path = <<>> THEN <<".">>
  ELSE LET rooted == path[1] = "/"
           out    == JoinComps(CleanComps(Comps(path, <<>>), <<>>, rooted))
       IN  IF rooted THEN <<"/">> \o out
           ELSE IF out = <<>> THEN <<".">> ELSE out

\* strings.Join(elem, "/")
RECURSIVE JoinSep(_)
JoinSep(elem) ==
  IF elem = <<>> THEN <<>>
  ELSE IF Len(elem) = 1 THEN elem[1]
  ELSE elem[1] \o <<"/">> \o JoinSep(Tail(elem))

\* filepath.Join: leading empty elements are skipped, the rest is joined
\* with separators and cleaned; all empty gives the empty string.
RECURSIVE FilepathJoin(_)
FilepathJoin(elem) ==
  IF elem = <<>> THEN <<>>
  ELSE IF Head(elem) # <<>> THEN Clean(JoinSep(elem))
  ELSE FilepathJoin(Tail(elem))

\* "/var/lib/snapd/hostfs"
HostFS ==
  <<"/", "v", "a", "r", "/", "l", "i", "b", "/", "s", "n", "a", "p", "d",
    "/", "h", "o", "s", "t", "f", "s">>

\* getJujuPath with the remap applied whenever it is requested, confined
\* or not
GetJujuPathAlwaysRemap(cmd, subPath, snapify) ==
  LET jujuBaseDir == IF snapify
                     THEN FilepathJoin(<<HostFS, cmd.jujuDir>>)
                     ELSE cmd.jujuDir
  IN  FilepathJoin(<<jujuBaseDir, subPath>>)

\* rebootstrapCommand.getJujuPath
getJujuPath(cmd, subPath, snapify) ==
  LET jujuBaseDir == IF snapify /\ cmd.asSnap
                     THEN FilepathJoin(<<HostFS, cmd.jujuDir>>)
                     ELSE cmd.jujuDir
  IN  FilepathJoin(<<jujuBaseDir, subPath>>)


----------------------------------------------------------------------------
(* Errors and log lines *)

\* One part of an error chain or one logger line: a fixed text and the
\* value formatted into it (a path, a number; <<>> when there is none).
Part(msg, arg) == [msg |-> msg, arg |-> arg]

NoErr == <<>>

\* errors.Errorf and errors.NotFoundf with one formatted value
Errorf(msg, arg) == <<Part(msg, arg)>>

\* errors.Annotate / errors.Annotatef: the annotation goes in front
Annotate(e, msg, arg) == <<Part(msg, arg)>> \o e

\* the *fs.PathError the os package returns: "<op> <path>: <errno text>"
PathError(op, path, errno) == <<Part(op, path), Part(errno, <<>>)>>

ENOENT == "no such file or directory"

ENOTDIR == "not a directory"

EISDIR == "is a directory"

----------------------------------------------------------------------------
(* The filesystem *)

\* A node: a directory or a file. A file carries the parsed lines of an
\* agent.conf (doc) or the contents of the bolt store (term, conf).
DirNode == [kind |-> "dir", doc |-> <<>>, term |-> 0, conf |-> <<>>]

FileNode(doc) == [kind |-> "file", doc |-> doc, term |-> 0, conf |-> <<>>]

Exists(f, path) == path \in DOMAIN f

\* the directories a cleaned absolute path lies under, "/" included
Ancestors(path) ==
  {<<"/">>} \cup {SubSeq(path, 1, i - 1) : i \in {j \in 2..Len(path) : path[j] = "/"}}

\* filepath.Dir and filepath.Base of a cleaned absolute path
LastSlash(path) == CHOOSE i \in 1..Len(path) :
                     /\ path[i] = "/"
                     /\ \A j \in (i + 1)..Len(path) : path[j] # "/"

PathDir(path) ==
  IF LastSlash(path) = 1 THEN <<"/">> ELSE SubSeq(path, 1, LastSlash(path) - 1)

PathBase(path) == SubSeq(path, LastSlash(path) + 1, Len(path))

\* the errno of a lookup that finds nothing at path
LookupErrno(f, path) ==
  IF \E a \in Ancestors(path) \ {path} : Exists(f, a) /\ f[a].kind = "file"
  THEN ENOTDIR ELSE ENOENT

\* os.Stat: nil exactly when something is at the path
Stat(f, path) ==
  IF Exists(f, path) THEN NoErr ELSE PathError("stat", path, LookupErrno(f, path))

\* byte order of the characters the model uses
Ascii ==
  <<"+", "-", ".", "/", "0", "1", "2", "3", "4", "5", "6", "7", "8", "9", ":",
    "[", "]", "a", "b", "c", "d", "e", "f", "g", "h", "i", "j", "k", "l", "m",
    "n", "o", "p", "q", "r", "s", "t", "u", "v", "w", "x", "y", "z">>

Rank(ch) == CHOOSE i \in 1..Len(Ascii) : Ascii[i] = ch

RECURSIVE StrLess(_, _)
StrLess(a, b) ==
  IF b = <<>> THEN FALSE
  ELSE IF a = <<>> THEN TRUE
  ELSE IF Head(a) = Head(b) THEN StrLess(Tail(a), Tail(b))
  ELSE Rank(Head(a)) < Rank(Head(b))

RECURSIVE SortNames(_)
SortNames(S) ==
  IF S = {} THEN <<>>
  ELSE LET m == CHOOSE x \in S : \A y \in S \ {x} : StrLess(x, y)
       IN  <<m>> \o SortNames(S \ {m})

\* os.ReadDir: the entries of a directory sorted by name, each with its
\* name and whether it is a directory. Returns [entries, err].
ReadDir(f, path) ==
  IF ~Exists(f, path)
  THEN [entries |-> <<>>, err |-> PathError("open", path, LookupErrno(f, path))]
  ELSE IF f[path].kind # "dir"
  THEN [entries |-> <<>>, err |-> PathError("readdirent", path, ENOTDIR)]
  ELSE LET kids  == {q \in DOMAIN f : q # <<"/">> /\ PathDir(q) = path}
           names == SortNames({PathBase(q) : q \in kids})
           child(n) == CHOOSE q \in kids : PathBase(q) = n
       IN  [entries |-> [i \in 1..Len(names) |->
                           [name |-> names[i], isDir |-> f[child(names[i])].kind = "dir"]],
            err |-> NoErr]

\* os.Open for reading, and the bytes a later read gives. Returns [doc, err].
Open(f, path) ==
  IF ~Exists(f, path)
  THEN [doc |-> <<>>, readable |-> FALSE,
        err |-> PathError("open", path, LookupErrno(f, path))]
  ELSE [doc |-> f[path].doc, readable |-> f[path].kind = "file", err |-> NoErr]

----------------------------------------------------------------------------
(* Machine-ID discovery and state-password extraction *)

\* "machine-"
MachinePrefix == <<"m", "a", "c", "h", "i", "n", "e", "-">>

\* "agents"
AgentsDir == <<"a", "g", "e", "n", "t", "s">>

\* "/agent.conf"
AgentConfSuffix == <<"/", "a", "g", "e", "n", "t", ".", "c", "o", "n", "f">>

\* "raft"
RaftDir == <<"r", "a", "f", "t">>

\* the loop of getMachineID without its directory check
RECURSIVE CollectMachineIDsAnyEntry(_)
CollectMachineIDsAnyEntry(entries) ==
  IF entries = <<>> THEN <<>>
  ELSE LET entry == Head(entries)
           rest  == CollectMachineIDsAnyEntry(Tail(entries))
       IN  IF HasPrefix(entry.name, MachinePrefix)
              /\ Atoi(TrimPrefix(entry.name, MachinePrefix)).ok
           THEN <<TrimPrefix(entry.name, MachinePrefix)>> \o rest
           ELSE rest

\* the loop of getMachineID: the suffixes of the directory entries named
\* "machine-" followed by something strconv.Atoi accepts, in listing order
RECURSIVE CollectMachineIDs(_)
CollectMachineIDs(entries) ==
  IF entries = <<>> THEN <<>>
  ELSE LET entry == Head(entries)
           rest  == CollectMachineIDs(Tail(entries))
       IN  IF ~entry.isDir THEN rest
           ELSE IF HasPrefix(entry.name, MachinePrefix)
                   /\ Atoi(TrimPrefix(entry.name, MachinePrefix)).ok
           THEN <<TrimPrefix(entry.name, MachinePrefix)>> \o rest
           ELSE rest

\* getMachineID that answers a missing directory with the identity "0"
GetMachineIDDefaulting(cmd, f, agentDirectory) ==
  LET shown == getJujuPath(cmd, agentDirectory, FALSE)
      real  == getJujuPath(cmd, agentDirectory, TRUE)
      rd    == ReadDir(f, real)
      ids   == CollectMachineIDs(rd.entries)
  IN  [ret |-> IF rd.err # NoErr THEN <<"0">> ELSE IF Len(ids) = 1 THEN ids[1] ELSE <<>>,
       err |-> IF rd.err = NoErr /\ Len(ids) # 1
               THEN Errorf("expected exactly one machine ID, got", Itoa(Len(ids)))
               ELSE NoErr,
       logs |-> <<Part("looking for machine ID in", shown)>>,
       ops |-> <<Part("ReadDir", real)>>]

\* rebootstrapCommand.getMachineID. Returns the identity, the error, the
\* logger lines written and the filesystem calls made.
getMachineID(cmd, f, agentDirectory) ==
  LET shown == getJujuPath(cmd, agentDirectory, FALSE)
      real  == getJujuPath(cmd, agentDirectory, TRUE)
      rd    == ReadDir(f, real)
      ids   == CollectMachineIDs(rd.entries)
      lg    == <<Part("looking for machine ID in", shown)>>
      op    == <<Part("ReadDir", real)>>
  IN  IF rd.err # NoErr
      THEN [ret |-> <<>>, err |-> Annotate(rd.err, "reading directory", shown),
            logs |-> lg, ops |-> op]
      ELSE IF Len(ids) # 1
      THEN [ret |-> <<>>,
            err |-> Errorf("expected exactly one machine ID, got", Itoa(Len(ids))),
            logs |-> lg, ops |-> op]
      ELSE [ret |-> ids[1], err |-> NoErr, logs |-> lg, ops |-> op]

\* One top-level line of an agent.conf: its key, the kind of its value
\* ("str", "int", "null", "seq", "map") and, for a scalar, its text.
Field(key, kind, val) == [key |-> key, kind |-> kind, val |-> val]

\* yaml Decoder.Decode into map[string]interface{}: an empty document is
\* io.EOF, a repeated key is an error, otherwise the mapping key -> value.
YamlDecode(doc) ==
  IF doc = <<>> THEN [config |-> <<>>, err |-> Errorf("EOF", <<>>)]
  ELSE IF \E i, j \in 1..Len(doc) : i # j /\ doc[i].key = doc[j].key
  THEN [config |-> <<>>, err |-> Errorf("yaml: mapping key already defined", <<>>)]
  ELSE [config |-> doc, err |-> NoErr]

\* config[key] of the decoded mapping: [present, kind, val]
Lookup(config, key) ==
  IF \E i \in 1..Len(config) : config[i].key = key
  THEN LET i == CHOOSE i \in 1..Len(config) : config[i].key = key
       IN  [present |-> TRUE, kind |-> config[i].kind, val |-> config[i].val]
  ELSE [present |-> FALSE, kind |-> "null", val |-> <<>>]

\* extractStatePassword that takes the text of any scalar for the password
ExtractStatePasswordAnyKind(doc) ==
  LET dec == YamlDecode(doc)
      v   == Lookup(dec.config, "statepassword")
  IN  IF dec.err # NoErr
      THEN [ret |-> <<>>, err |-> Annotate(dec.err, "decoding yaml", <<>>)]
      ELSE IF ~v.present \/ v.val = <<>>
      THEN [ret |-> <<>>, err |-> Errorf("statepassword not found", <<>>)]
      ELSE [ret |-> v.val, err |-> NoErr]

\* extractStatePassword without its test of the value it found
ExtractStatePasswordUnchecked(doc) ==
  LET dec == YamlDecode(doc)
      v   == Lookup(dec.config, "statepassword")
  IN  IF dec.err # NoErr
      THEN [ret |-> <<>>, err |-> Annotate(dec.err, "decoding yaml", <<>>)]
      ELSE [ret |-> IF v.present /\ v.kind = "str" THEN v.val ELSE <<>>, err |-> NoErr]

\* rebootstrapCommand.extractStatePassword
extractStatePassword(doc) ==
  LET dec == YamlDecode(doc)
      v   == Lookup(dec.config, "statepassword")
      ok  == v.present /\ v.kind = "str"
      password == IF ok THEN v.val ELSE <<>>
  IN  IF dec.err # NoErr
      THEN [ret |-> <<>>, err |-> Annotate(dec.err, "decoding yaml", <<>>)]
      ELSE IF ~ok \/ password = <<>>
      THEN [ret |-> <<>>, err |-> Errorf("statepassword not found", <<>>)]
      ELSE [ret |-> password, err |-> NoErr]

\* "agents/machine-<id>/agent.conf" under agentDirectory
AgentConfigPath(machineID, agentDirectory) ==
  FilepathJoin(<<agentDirectory, MachinePrefix \o machineID \o AgentConfSuffix>>)

\* rebootstrapCommand.getStatePassword
getStatePassword(cmd, f, machineID, agentDirectory) ==
  LET agentConfigPath == AgentConfigPath(machineID, agentDirectory)
      shown == getJujuPath(cmd, agentConfigPath, FALSE)
      real  == getJujuPath(cmd, agentConfigPath, TRUE)
      file  == Open(f, real)
      res   == IF file.readable THEN extractStatePassword(file.doc)
               ELSE [ret |-> <<>>,
                     err |-> Annotate(PathError("read", real, EISDIR), "decoding yaml", <<>>)]
      lg    == <<Part("looking for agent config in", shown)>>
      op    == <<Part("Open", real)>>
  IN  IF file.err # NoErr
      THEN [ret |-> <<>>,
            err |-> Annotate(file.err, "opening agent config file", agentConfigPath),
            logs |-> lg, ops |-> op]
      ELSE IF res.err # NoErr
      THEN [ret |-> <<>>,
            err |-> Annotate(res.err, "extracting state password from", agentConfigPath),
            logs |-> lg, ops |-> op]
      ELSE [ret |-> res.ret, err |-> NoErr,
            logs |-> lg \o <<Part("Successfully extracted state password for machine ID",
                                  machineID)>>,
            ops |-> op]

----------------------------------------------------------------------------
(* Replica-set members and the raft server list *)

\* jujuMachineKey
jujuMachineKey == "juju-machine-id"

\* 1-based index of the first / last ch in s, 0 when there is none
IndexByte(s, ch) ==
  IF \E i \in 1..Len(s) : s[i] = ch
  THEN CHOOSE i \in 1..Len(s) : s[i] = ch /\ \A j \in 1..(i - 1) : s[j] # ch
  ELSE 0

LastIndexByte(s, ch) ==
  IF \E i \in 1..Len(s) : s[i] = ch
  THEN CHOOSE i \in 1..Len(s) : s[i] = ch /\ \A j \in (i + 1)..Len(s) : s[j] # ch
  ELSE 0

\* net.SplitHostPort. Returns [host, port, err], err = "" on success.
SplitHostPort(hostport) ==
  LET i    == LastIndexByte(hostport, ":")
      bad(e) == [host |-> <<>>, port |-> <<>>, err |-> e]
      port == SubSeq(hostport, i + 1, Len(hostport))
  IN  IF i = 0 THEN bad("missing port in address")
      ELSE IF hostport[1] = "["
      THEN LET end == IndexByte(hostport, "]") IN
           IF end = 0 THEN bad("missing ']' in address")
           ELSE IF end = Len(hostport) THEN bad("missing port in address")
           ELSE IF end + 1 # i
           THEN (IF hostport[end + 1] = ":" THEN bad("too many colons in address")
                 ELSE bad("missing port in address"))
           ELSE IF IndexByte(SubSeq(hostport, 2, Len(hostport)), "[") # 0
           THEN bad("unexpected '[' in address")
           ELSE IF IndexByte(SubSeq(hostport, end + 1, Len(hostport)), "]") # 0
           THEN bad("unexpected ']' in address")
           ELSE [host |-> SubSeq(hostport, 2, end - 1), port |-> port, err |-> ""]
      ELSE LET host == SubSeq(hostport, 1, i - 1) IN
           IF IndexByte(host, ":") # 0 THEN bad("too many colons in address")
           ELSE IF IndexByte(hostport, "[") # 0 THEN bad("unexpected '[' in address")
           ELSE IF IndexByte(hostport, "]") # 0 THEN bad("unexpected ']' in address")
           ELSE [host |-> host, port |-> port, err |-> ""]

\* net.JoinHostPort
JoinHostPort(host, port) ==
  IF IndexByte(host, ":") # 0
  THEN <<"[">> \o host \o <<"]", ":">> \o port
  ELSE host \o <<":">> \o port

\* A replicaset.Member: Id, Address, Tags (a function from tag keys to
\* values) and Votes (a *int: present or nil).
Member(id, address, tags, votes) ==
  [Id |-> id, Address |-> address, Tags |-> tags, Votes |-> votes]

NilVotes == [present |-> FALSE, val |-> 0]

Votes(n) == [present |-> TRUE, val |-> n]

\* raft.Server
Server(id, address, suffrage) ==
  [ID |-> id, Address |-> address, Suffrage |-> suffrage]

\* makeRaftServers that hands back the servers built so far with the error
RECURSIVE MakeRaftServersFromPartial(_, _, _)
MakeRaftServersFromPartial(members, apiPort, acc) ==
  IF members = <<>> THEN [servers |-> acc, err |-> NoErr]
  ELSE LET member == Head(members)
           split  == SplitHostPort(member.Address)
       IN  IF jujuMachineKey \notin DOMAIN member.Tags
           THEN [servers |-> acc,
                 err |-> Errorf("juju machine id for replset member not found",
                                Itoa(member.Id))]
           ELSE IF split.err # ""
           THEN [servers |-> acc,
                 err |-> Annotate(<<Part(split.err, member.Address)>>,
                                  "getting base address for replset member",
                                  Itoa(member.Id))]
           ELSE MakeRaftServersFromPartial(Tail(members), apiPort,
                  Append(acc, Server(member.Tags[jujuMachineKey],
                                     JoinHostPort(split.host, Itoa(apiPort)),
                                     IF member.Votes.present /\ member.Votes.val < 1
                                     THEN "Nonvoter" ELSE "Voter")))

\* makeRaftServers. Returns [servers, err]: the empty configuration with
\* the error of the first member that has no machine tag or no host:port
\* address, and otherwise one server per member, in order.
RECURSIVE makeRaftServersFrom(_, _, _)
makeRaftServersFrom(members, apiPort, acc) ==
  IF members = <<>> THEN [servers |-> acc, err |-> NoErr]
  ELSE LET member == Head(members)
           ok     == jujuMachineKey \in DOMAIN member.Tags
           split  == SplitHostPort(member.Address)
           apiAddress == JoinHostPort(split.host, Itoa(apiPort))
           suffrage == IF member.Votes.present /\ member.Votes.val < 1
                       THEN "Nonvoter" ELSE "Voter"
       IN  IF ~ok
           THEN [servers |-> <<>>,
                 err |-> Errorf("juju machine id for replset member not found",
                                Itoa(member.Id))]
           ELSE IF split.err # ""
           THEN [servers |-> <<>>,
                 err |-> Annotate(<<Part(split.err, member.Address)>>,
                                  "getting base address for replset member",
                                  Itoa(member.Id))]
           ELSE makeRaftServersFrom(Tail(members), apiPort,
                  Append(acc, Server(member.Tags[jujuMachineKey], apiAddress, suffrage)))

\* makeRaftServers that walks the members from the last to the first
MakeRaftServersReversed(members, apiPort) ==
  makeRaftServersFrom([i \in 1..Len(members) |-> members[Len(members) + 1 - i]],
                      apiPort, <<>>)

makeRaftServers(members, apiPort) == makeRaftServersFrom(members, apiPort, <<>>)

\* a nil *raft.Config
NilConfig == [made |-> FALSE, LocalID |-> <<>>, ShutdownOnRemove |-> FALSE]

\* makeRaftConfig without raft.ValidateConfig
MakeRaftConfigUnvalidated(machineID) ==
  [config |-> [made |-> TRUE, LocalID |-> machineID, ShutdownOnRemove |-> FALSE],
   err |-> NoErr]

\* makeRaftConfig: the default configuration with LocalID = machineID and
\* ShutdownOnRemove off, through raft.ValidateConfig, which fails exactly
\* when the LocalID is empty. Returns [config, err].
makeRaftConfig(machineID) ==
  IF machineID = <<>>
  THEN [config |-> NilConfig,
        err |-> Annotate(Errorf("LocalID cannot be empty", <<>>),
                         "validating raft config", <<>>)]
  ELSE [config |-> [made |-> TRUE, LocalID |-> machineID, ShutdownOnRemove |-> FALSE],
        err |-> NoErr]

\* raft's check of the configuration handed to BootstrapCluster: no empty
\* or repeated ID or address, and at least one voter.
ConfigurationOK(conf) ==
  /\ \A i \in 1..Len(conf) : conf[i].ID # <<>> /\ conf[i].Address # <<>>
  /\ \A i, j \in 1..Len(conf) :
       i # j => conf[i].ID # conf[j].ID /\ conf[i].Address # conf[j].Address
  /\ \E i \in 1..Len(conf) : conf[i].Suffrage = "Voter"

----------------------------------------------------------------------------
(* Writes under the raft directory *)

\* os.MkdirAll that succeeds: the path and its missing ancestors become
\* directories, what exists is left alone.
MkdirAll(f, path) ==
  [p \in DOMAIN f \cup Ancestors(path) \cup {path} |->
     IF p \in DOMAIN f THEN f[p] ELSE DirNode]

\* whether os.MkdirAll can succeed: nothing on the way is a file
CanMkdirAll(f, path) ==
  \A a \in Ancestors(path) \cup {path} : Exists(f, a) => f[a].kind = "dir"

\* the path of an entry of a directory
Under(dir, name) == FilepathJoin(<<dir, name>>)

\* "logs"
LogsName == <<"l", "o", "g", "s">>

\* "snapshots"
SnapshotsName == <<"s", "n", "a", "p", "s", "h", "o", "t", "s">>

\* raftboltdb.New on dir/logs that succeeds: the file is created empty
\* when absent and opened as it is otherwise
BoltOpen(f, path) ==
  IF Exists(f, path) THEN f
  ELSE [p \in DOMAIN f \cup {path} |-> IF p = path THEN FileNode(<<>>) ELSE f[p]]

\* raft's test for state left by an earlier bootstrap: a current term, a
\* log entry, or a snapshot
HasExistingState(f, dir) ==
  LET logsPath == Under(dir, LogsName)
      snaps    == Under(dir, SnapshotsName)
  IN  \/ f[logsPath].term > 0
      \/ f[logsPath].conf # <<>>
      \/ \E q \in DOMAIN f : HasPrefix(q, snaps \o <<"/">>)

\* what raft.BootstrapCluster writes: the current term, then the first
\* log entry holding the configuration
WriteTerm(f, dir) ==
  [f EXCEPT ![Under(dir, LogsName)].term = 1]

WriteConfiguration(f, dir, conf) ==
  [f EXCEPT ![Under(dir, LogsName)].conf = conf]

----------------------------------------------------------------------------
(* Run, step by step *)

\* the raft directory as the program opens it and as it shows it
RaftReal(cmd) == getJujuPath(cmd, RaftDir, TRUE)

RaftShown(cmd) == getJujuPath(cmd, RaftDir, FALSE)

\* a preflight that lets an existing but empty directory through
PreflightRejectsNonEmpty(cmd, f) ==
  LET dir == RaftReal(cmd)
  IN  /\ Stat(f, dir) = NoErr
      /\ \E q \in DOMAIN f : HasPrefix(q, dir \o <<"/">>)
      /\ ~cmd.dryRun

\* a preflight that rejects a dry run as well
PreflightRejectsDryRunToo(cmd, f) == Stat(f, RaftReal(cmd)) = NoErr

\* the preflight of Run: err == nil && !c.dryRun
PreflightRejects(cmd, f) ==
  /\ Stat(f, RaftReal(cmd)) = NoErr
  /\ ~cmd.dryRun

\* a run that never takes the dry-run exit
DryRunNeverStops(cmd) == FALSE

\* the dry-run exit of Run: if c.dryRun { return nil }
DryRunStops(cmd) == cmd.dryRun

NoSession == [dials |-> 0, open |-> 0, fetches |-> 0, closes |-> 0,
              username |-> <<>>, password |-> <<>>, members |-> <<>>]

\* ends the invocation with error e
Fail(e) ==
  /\ pc' = "done"
  /\ err' = e

\* cmd.Main: the flags are parsed into the command and Run is entered.
\* asSnap is what Init derives from the environment, which does not
\* change between invocations on one host.
Start(dryRun, machineID, password) ==
  /\ pc \in {"idle", "done"}
  /\ c' = [c EXCEPT !.dryRun = dryRun, !.machineID = machineID, !.password = password]
  /\ pc' = "preflight"
  /\ err' = NoErr
  /\ steps' = <<>>
  /\ fsOps' = <<>>
  /\ logs' = <<>>
  /\ db' = NoSession
  /\ servers' = <<>>
  /\ fs0' = fs
  /\ raftConfig' = NilConfig
  /\ UNCHANGED <<fs, call>>

Preflight ==
  /\ pc = "preflight"
  /\ steps' = Append(steps, "Stat")
  /\ fsOps' = Append(fsOps, Part("Stat", RaftReal(c)))
  /\ IF PreflightRejects(c, fs)
     THEN /\ Fail(Errorf("raft directory already exists - remove it first to show your commitment", RaftShown(c)))
          /\ UNCHANGED logs
     ELSE /\ pc' = "identity"
          /\ logs' = Append(logs, Part("Will create raft directory", RaftShown(c)))
          /\ UNCHANGED err
  /\ UNCHANGED <<c, fs, db, servers, fs0, call, raftConfig>>

\* an identity step that runs the discovery whatever the flag says
IdentityAlwaysDiscovers ==
  /\ pc = "identity"
  /\ LET r == getMachineID(c, fs, AgentsDir) IN
     /\ steps' = Append(steps, "getMachineID")
     /\ fsOps' = fsOps \o r.ops
     /\ IF r.err # NoErr
        THEN /\ Fail(Annotate(r.err, "getting machine IDs", <<>>))
             /\ logs' = logs \o r.logs
             /\ UNCHANGED c
        ELSE /\ c' = [c EXCEPT !.machineID = r.ret]
             /\ logs' = logs \o r.logs \o <<Part("Got machine ID:", r.ret)>>
             /\ pc' = "credential"
             /\ UNCHANGED err
  /\ UNCHANGED <<fs, db, servers, fs0, call, raftConfig>>

Identity ==
  /\ pc = "identity"
  /\ IF c.machineID = <<>>
     THEN LET r == getMachineID(c, fs, AgentsDir) IN
          /\ steps' = Append(steps, "getMachineID")
          /\ fsOps' = fsOps \o r.ops
          /\ IF r.err # NoErr
             THEN /\ Fail(Annotate(r.err, "getting machine IDs", <<>>))
                  /\ logs' = logs \o r.logs
                  /\ UNCHANGED c
             ELSE /\ c' = [c EXCEPT !.machineID = r.ret]
                  /\ logs' = logs \o r.logs \o <<Part("Got machine ID:", r.ret)>>
                  /\ pc' = "credential"
                  /\ UNCHANGED err
     ELSE /\ pc' = "credential"
          /\ UNCHANGED <<c, err, steps, fsOps, logs>>
  /\ UNCHANGED <<fs, db, servers, fs0, call, raftConfig>>

Credential ==
  /\ pc = "credential"
  /\ IF c.password = <<>>
     THEN LET r == getStatePassword(c, fs, c.machineID, AgentsDir) IN
          /\ steps' = Append(steps, "getStatePassword")
          /\ fsOps' = fsOps \o r.ops
          /\ IF r.err # NoErr
             THEN /\ Fail(Annotate(r.err, "getting state password", <<>>))
                  /\ logs' = logs \o r.logs
                  /\ UNCHANGED c
             ELSE /\ c' = [c EXCEPT !.password = r.ret]
                  /\ logs' = logs \o r.logs \o <<Part("Got state password", <<>>)>>
                  /\ pc' = "dial"
                  /\ UNCHANGED err
     ELSE /\ pc' = "dial"
          /\ UNCHANGED <<c, err, steps, fsOps, logs>>
  /\ UNCHANGED <<fs, db, servers, fs0, call, raftConfig>>

\* a dial that is tried a second time when the first one fails
DialRetries(ok) ==
  /\ pc = "dial"
  /\ steps' = Append(steps, "dial")
  /\ db' = [db EXCEPT !.dials = @ + 1,
                      !.open = IF ok THEN @ + 1 ELSE @,
                      !.username = MachinePrefix \o c.machineID,
                      !.password = c.password]
  /\ IF ok
     THEN /\ pc' = "fetch"
          /\ UNCHANGED err
     ELSE IF db.dials = 0
     THEN UNCHANGED <<pc, err>>
     ELSE Fail(Annotate(Annotate(Errorf("no reachable servers", <<>>),
                                 "connecting to MongoDB", <<>>),
                        "getting replica set members", <<>>))
  /\ UNCHANGED <<c, fs, fsOps, logs, servers, fs0, call, raftConfig>>

\* getReplicaSetMembers up to the session: c.dial() succeeds or fails
Dial(ok) ==
  /\ pc = "dial"
  /\ steps' = Append(steps, "dial")
  /\ db' = [db EXCEPT !.dials = @ + 1,
                      !.open = IF ok THEN @ + 1 ELSE @,
                      !.username = MachinePrefix \o c.machineID,
                      !.password = c.password]
  /\ IF ok
     THEN /\ pc' = "fetch"
          /\ UNCHANGED err
     ELSE Fail(Annotate(Annotate(Errorf("no reachable servers", <<>>),
                                 "connecting to MongoDB", <<>>),
                        "getting replica set members", <<>>))
  /\ UNCHANGED <<c, fs, fsOps, logs, servers, fs0, call, raftConfig>>

\* a fetch that closes the session only when it got the members
FetchClosesOnSuccessOnly(ok, members) ==
  /\ pc = "fetch"
  /\ IF ok
     THEN /\ pc' = "servers"
          /\ steps' = steps \o <<"CurrentMembers", "Close">>
          /\ db' = [db EXCEPT !.fetches = @ + 1, !.open = @ - 1, !.closes = @ + 1,
                              !.members = members]
          /\ logs' = Append(logs, Part("Got replica set members.", <<>>))
          /\ UNCHANGED err
     ELSE /\ Fail(Annotate(Errorf("cannot get replica set status", <<>>),
                           "getting replica set members", <<>>))
          /\ steps' = Append(steps, "CurrentMembers")
          /\ db' = [db EXCEPT !.fetches = @ + 1]
          /\ UNCHANGED logs
  /\ UNCHANGED <<c, fs, fsOps, servers, fs0, call, raftConfig>>

\* the rest of getReplicaSetMembers: replicaset.CurrentMembers on the
\* session, and the deferred session.Close() as the function returns
Fetch(ok, members) ==
  /\ pc = "fetch"
  /\ steps' = steps \o <<"CurrentMembers", "Close">>
  /\ db' = [db EXCEPT !.fetches = @ + 1, !.open = @ - 1, !.closes = @ + 1,
                      !.members = IF ok THEN members ELSE <<>>]
  /\ IF ok
     THEN /\ pc' = "servers"
          /\ logs' = Append(logs, Part("Got replica set members.", <<>>))
          /\ UNCHANGED err
     ELSE /\ Fail(Annotate(Errorf("cannot get replica set status", <<>>),
                           "getting replica set members", <<>>))
          /\ UNCHANGED logs
  /\ UNCHANGED <<c, fs, fsOps, servers, fs0, call, raftConfig>>

\* makeRaftServers, the logging of the servers, and the dry-run exit
Servers ==
  /\ pc = "servers"
  /\ steps' = Append(steps, "makeRaftServers")
  /\ LET r == makeRaftServers(db.members, c.apiPort) IN
     IF r.err # NoErr
     THEN /\ Fail(Annotate(r.err, "constructing raft server configuration", <<>>))
          /\ servers' = r.servers
          /\ UNCHANGED logs
     ELSE /\ servers' = r.servers
          /\ UNCHANGED err
          /\ IF DryRunStops(c)
             THEN /\ pc' = "done"
                  /\ logs' = logs \o <<Part("Raft server info:", <<>>),
                                       Part("dry-run specified - stopping", <<>>)>>
             ELSE /\ pc' = "logstore"
                  /\ logs' = Append(logs, Part("Raft server info:", <<>>))
  /\ UNCHANGED <<c, fs, fsOps, db, fs0, call, raftConfig>>

\* bootstrapRaft: NewLogStore. envMkdir and envBolt say whether the host
\* lets the directory and the bolt file be created.
LogStore(envMkdir, envBolt) ==
  /\ pc = "logstore"
  /\ steps' = Append(steps, "NewLogStore")
  /\ LET dir  == RaftReal(c)
         path == Under(dir, LogsName)
         made == MkdirAll(fs, dir)
     IN  IF ~(envMkdir /\ CanMkdirAll(fs, dir))
         THEN /\ Fail(Annotate(PathError("mkdir", dir, "permission denied"),
                               "making log store", <<>>))
              /\ fsOps' = Append(fsOps, Part("MkdirAll", dir))
              /\ UNCHANGED <<fs, logs>>
         ELSE IF ~envBolt \/ (Exists(made, path) /\ made[path].kind # "file")
         THEN /\ Fail(Annotate(Annotate(PathError("open", path, "permission denied"),
                                        "failed to create bolt store for raft logs", <<>>),
                               "making log store", <<>>))
              /\ fs' = made
              /\ fsOps' = fsOps \o <<Part("MkdirAll", dir), Part("bolt.Open", path)>>
              /\ UNCHANGED logs
         ELSE /\ fs' = BoltOpen(made, path)
              /\ fsOps' = fsOps \o <<Part("MkdirAll", dir), Part("bolt.Open", path)>>
              /\ logs' = Append(logs, Part("New raft log store created in", RaftShown(c)))
              /\ pc' = "snapstore"
              /\ UNCHANGED err
  /\ UNCHANGED <<c, db, servers, fs0, call, raftConfig>>

\* bootstrapRaft: NewSnapshotStore
SnapshotStore(env) ==
  /\ pc = "snapstore"
  /\ steps' = Append(steps, "NewSnapshotStore")
  /\ LET dir  == RaftReal(c)
         path == Under(dir, SnapshotsName)
     IN  /\ fsOps' = fsOps \o <<Part("MkdirAll", dir), Part("MkdirAll", path)>>
         /\ IF ~(env /\ CanMkdirAll(fs, path))
            THEN /\ Fail(Annotate(Annotate(PathError("mkdir", path, "permission denied"),
                                           "failed to create file snapshot store", <<>>),
                                  "making snapshot store", <<>>))
                 /\ UNCHANGED <<fs, logs>>
            ELSE /\ fs' = MkdirAll(fs, path)
                 /\ logs' = Append(logs, Part("New raft snapshot store created in",
                                              RaftShown(c)))
                 /\ pc' = "raftconfig"
                 /\ UNCHANGED err
  /\ UNCHANGED <<c, db, servers, fs0, call, raftConfig>>

\* a makeRaftConfig step that passes the error on as it got it
RaftConfigUnannotated ==
  /\ pc = "raftconfig"
  /\ steps' = Append(steps, "makeRaftConfig")
  /\ LET r == makeRaftConfig(c.machineID) IN
     /\ raftConfig' = r.config
     /\ IF r.err # NoErr
        THEN /\ Fail(r.err)
             /\ UNCHANGED logs
        ELSE /\ pc' = "bootstrap"
             /\ logs' = Append(logs, Part("New raft config created", <<>>))
             /\ UNCHANGED err
  /\ UNCHANGED <<c, fs, fsOps, db, servers, fs0, call>>

\* bootstrapRaft: makeRaftConfig
RaftConfig ==
  /\ pc = "raftconfig"
  /\ steps' = Append(steps, "makeRaftConfig")
  /\ LET r == makeRaftConfig(c.machineID) IN
     /\ raftConfig' = r.config
     /\ IF r.err # NoErr
        THEN /\ Fail(Annotate(r.err, "making raft config", <<>>))
             /\ UNCHANGED logs
        ELSE /\ pc' = "bootstrap"
             /\ logs' = Append(logs, Part("New raft config created", <<>>))
             /\ UNCHANGED err
  /\ UNCHANGED <<c, fs, fsOps, db, servers, fs0, call>>

\* a BootstrapCluster step that removes the raft directory when it fails
BootstrapCleansUp(env) ==
  /\ pc = "bootstrap"
  /\ steps' = Append(steps, "BootstrapCluster")
  /\ LET dir == RaftReal(c)
         swept == [p \in {q \in DOMAIN fs : q # dir /\ ~HasPrefix(q, dir \o <<"/">>)} |-> fs[p]]
     IN  IF ConfigurationOK(servers) /\ ~HasExistingState(fs, dir) /\ env = "ok"
         THEN /\ fs' = WriteConfiguration(WriteTerm(fs, dir), dir, servers)
              /\ logs' = Append(logs, Part("New raft cluster store bootstrapped in",
                                           RaftShown(c)))
              /\ pc' = "done"
              /\ UNCHANGED err
         ELSE /\ Fail(Annotate(Errorf("bootstrap failed", <<>>),
                               "bootstrapping raft cluster", <<>>))
              /\ fs' = swept
              /\ UNCHANGED logs
  /\ UNCHANGED <<c, fsOps, db, servers, fs0, call, raftConfig>>

\* bootstrapRaft: raft.BootstrapCluster. env says how far the host lets
\* the writes go: "ok", "fail" (nothing written) or "torn" (the term is
\* written, the configuration is not).
Bootstrap(env) ==
  /\ pc = "bootstrap"
  /\ steps' = Append(steps, "BootstrapCluster")
  /\ LET dir == RaftReal(c)
         failed(msg) == Fail(Annotate(Errorf(msg, <<>>), "bootstrapping raft cluster", <<>>))
     IN  IF ~ConfigurationOK(servers)
         THEN failed("invalid configuration") /\ UNCHANGED <<fs, fsOps, logs>>
         ELSE IF HasExistingState(fs, dir)
         THEN failed("bootstrap only works on new clusters") /\ UNCHANGED <<fs, fsOps, logs>>
         ELSE IF env = "fail"
         THEN /\ failed("failed to save current term")
              /\ fsOps' = Append(fsOps, Part("SetUint64", Under(dir, LogsName)))
              /\ UNCHANGED <<fs, logs>>
         ELSE IF env = "torn"
         THEN /\ failed("failed to append configuration entry to log")
              /\ fs' = WriteTerm(fs, dir)
              /\ fsOps' = fsOps \o <<Part("SetUint64", Under(dir, LogsName)),
                                     Part("StoreLog", Under(dir, LogsName))>>
              /\ UNCHANGED logs
         ELSE /\ fs' = WriteConfiguration(WriteTerm(fs, dir), dir, servers)
              /\ fsOps' = fsOps \o <<Part("SetUint64", Under(dir, LogsName)),
                                     Part("StoreLog", Under(dir, LogsName))>>
              /\ logs' = Append(logs, Part("New raft cluster store bootstrapped in",
                                           RaftShown(c)))
              /\ pc' = "done"
              /\ UNCHANGED err
  /\ UNCHANGED <<c, db, servers, fs0, call, raftConfig>>

\* The operator moves the raft directory out of the way between two
\* invocations, as the README tells them to; what the last invocation
\* reported is gone from the terminal.
OperatorRemovesRaft ==
  /\ pc \in {"idle", "done"}
  /\ Exists(fs, RaftReal(c))
  /\ LET dir == RaftReal(c)
     IN  fs' = [p \in {q \in DOMAIN fs : q # dir /\ ~HasPrefix(q, dir \o <<"/">>)} |-> fs[p]]
  /\ pc' = "idle"
  /\ err' = NoErr
  /\ steps' = <<>>
  /\ fsOps' = <<>>
  /\ logs' = <<>>
  /\ db' = NoSession
  /\ servers' = <<>>
  /\ fs0' = fs'
  /\ raftConfig' = NilConfig
  /\ UNCHANGED <<c, call>>

----------------------------------------------------------------------------
(* Hosts the command is run on *)

\* the default of the api-port flag
ApiPort == 17070

\* "/var/lib/juju", the default of the juju-dir flag
DefaultJujuDir == <<"/", "v", "a", "r", "/", "l", "i", "b", "/", "j", "u", "j", "u">>

\* the command after SetFlags and Init, before any flag is given
Command(asSnap, jujuDir) ==
  [apiPort |-> ApiPort, asSnap |-> asSnap, dryRun |-> FALSE, jujuDir |-> jujuDir,
   machineID |-> <<>>, password |-> <<>>]

NoCall == [fn |-> "none", sub |-> <<>>, flag |-> FALSE, id |-> <<>>, doc |-> <<>>,
           ret |-> <<>>, err |-> NoErr]

\* a filesystem from a set of <<path, node>> pairs
FsOf(pairs) == [p \in {x[1] : x \in pairs} |-> (CHOOSE x \in pairs : x[1] = p)[2]]

\* the state root as the program opens it, with the directories above it
BaseOf(cmd) == getJujuPath(cmd, <<>>, TRUE)

BaseDirs(cmd) == {<<p, DirNode>> : p \in Ancestors(BaseOf(cmd)) \cup {BaseOf(cmd)}}

AgentsPath(cmd) == Under(BaseOf(cmd), AgentsDir)

MachineDir(cmd, id) == Under(AgentsPath(cmd), MachinePrefix \o id)

ConfPath(cmd, id) == MachineDir(cmd, id) \o AgentConfSuffix

\* agent.conf documents: one as jujud writes it, one without the password
Password == <<"q", "k">>

GoodDoc ==
  <<Field("tag", "str", MachinePrefix \o <<"0">>),
    Field("jobs", "seq", <<>>),
    Field("statepassword", "str", Password),
    Field("values", "map", <<>>),
    Field("apiport", "int", <<"1", "7">>)>>

NoPasswordDoc ==
  <<Field("tag", "str", MachinePrefix \o <<"0">>),
    Field("apipassword", "str", Password)>>

\* a raft store left by an earlier life of the controller
OldStore ==
  [kind |-> "file", doc |-> <<>>, term |-> 3,
   conf |-> <<Server(<<"0">>, <<"h", ":", "1">>, "Voter")>>]

AgentsLayouts(cmd) ==
  LET agents == <<AgentsPath(cmd), DirNode>>
      m0     == <<MachineDir(cmd, <<"0">>), DirNode>>
      m1     == <<MachineDir(cmd, <<"1">>), DirNode>>
      f1     == <<MachineDir(cmd, <<"1">>), FileNode(<<>>)>>
      conf0(doc) == <<ConfPath(cmd, <<"0">>), FileNode(doc)>>
  IN  { {},
        {agents, m0, conf0(GoodDoc)},
        {agents, m0},
        {agents, m0, conf0(GoodDoc), m1},
        {agents, m0, conf0(NoPasswordDoc), f1} }

RaftLayouts(cmd) ==
  LET raft == <<RaftReal(cmd), DirNode>>
  IN  { {},
        {raft},
        {raft, <<Under(RaftReal(cmd), LogsName), OldStore>>,
               <<Under(RaftReal(cmd), SnapshotsName), DirNode>>} }

\* what replicaset.CurrentMembers may return
MachineTag(id) == [k \in {jujuMachineKey} |-> id]

NoTags == [k \in {} |-> <<>>]

Addr0 == <<"h", "0", ":", "3", "7", "0", "1", "7">>

Addr1 == <<"h", "1", ":", "3", "7", "0", "1", "7">>

MemberLists ==
  { <<Member(1, Addr0, MachineTag(<<"0">>), NilVotes),
      Member(2, Addr1, MachineTag(<<"1">>), Votes(0))>>,
    <<Member(1, Addr0, MachineTag(<<"0">>), Votes(0))>>,
    <<Member(1, Addr0, MachineTag(<<"0">>), Votes(1)),
      Member(2, Addr1, NoTags, NilVotes)>>,
    <<Member(1, <<"h", "0">>, MachineTag(<<"0">>), NilVotes)>>,
    <<Member(1, Addr0, NoTags, NilVotes),
      Member(2, Addr1, MachineTag(<<"1">>), NilVotes)>>,
    <<Member(1, Addr0, MachineTag(<<"0">>), NilVotes),
      Member(2, <<"h", "1">>, MachineTag(<<"1">>), NilVotes)>> }

\* the values an operator gives the machine-id and password flags
MachineIDFlags == {<<>>, <<"0">>}

PasswordFlags == {<<>>, Password}

Idle ==
  /\ pc = "idle"
  /\ err = NoErr
  /\ steps = <<>>
  /\ fsOps = <<>>
  /\ logs = <<>>
  /\ db = NoSession
  /\ servers = <<>>
  /\ fs0 = fs
  /\ call = NoCall
  /\ raftConfig = NilConfig

Init ==
  /\ \E asSnap \in BOOLEAN : c = Command(asSnap, DefaultJujuDir)
  /\ \E agents \in AgentsLayouts(c), raft \in RaftLayouts(c) :
       fs = FsOf(BaseDirs(c) \cup agents \cup raft)
  /\ Idle

Next ==
  \/ \E dryRun \in BOOLEAN, machineID \in MachineIDFlags, password \in PasswordFlags :
       Start(dryRun, machineID, password)
  \/ Preflight
  \/ Identity
  \/ Credential
  \/ \E ok \in BOOLEAN : Dial(ok)
  \/ \E ok \in BOOLEAN, members \in MemberLists : Fetch(ok, members)
  \/ Servers
  \/ \E envMkdir \in BOOLEAN, envBolt \in BOOLEAN : LogStore(envMkdir, envBolt)
  \/ \E env \in BOOLEAN : SnapshotStore(env)
  \/ RaftConfig
  \/ \E env \in {"ok", "fail", "torn"} : Bootstrap(env)
  \/ OperatorRemovesRaft

Spec == Init /\ [][Next]_vars

----------------------------------------------------------------------------
(* Direct calls of the helpers, as the tests make them: one call on a new  *)
(* command                                                                 *)

\* the longest path the path resolver is called with, in characters
MaxPathLen == 3

\* the most entries an agents directory holds
MaxEntries == 2

\* the most top-level lines an agent.conf holds
MaxFields == 3

\* every string of at most n characters over the alphabet
RECURSIVE Strings(_, _)
Strings(alphabet, n) ==
  IF n = 0 THEN {<<>>}
  ELSE LET shorter == Strings(alphabet, n - 1)
       IN  shorter \cup {Append(s, ch) : s \in shorter, ch \in alphabet}

\* "somepath", "/otherpath" and "///extra/slash" of the tests
SomePath == <<"s", "o", "m", "e", "p", "a", "t", "h">>

OtherPath == <<"/", "o", "t", "h", "e", "r", "p", "a", "t", "h">>

ExtraSlash == <<"/", "/", "/", "e", "x", "t", "r", "a", "/", "s", "l", "a", "s", "h">>

PathInputs ==
  Strings({"/", ".", "j"}, MaxPathLen)
    \cup {SomePath, OtherPath, ExtraSlash, DefaultJujuDir, RaftDir, AgentsDir}

CallGetJujuPath(subPath, snapify) ==
  /\ call = NoCall
  /\ call' = [NoCall EXCEPT !.fn = "getJujuPath", !.sub = subPath, !.flag = snapify,
                            !.ret = getJujuPath(c, subPath, snapify)]
  /\ UNCHANGED <<c, fs, pc, err, steps, fsOps, logs, db, servers, fs0, raftConfig>>

PathInit ==
  /\ \E asSnap \in BOOLEAN, jujuDir \in PathInputs : c = Command(asSnap, jujuDir)
  /\ fs = FsOf({<<<<"/">>, DirNode>>})
  /\ Idle

PathNext == \E subPath \in PathInputs, snapify \in BOOLEAN : CallGetJujuPath(subPath, snapify)

SpecPath == PathInit /\ [][PathNext]_vars

\* names an entry of the agents directory may have
EntryNames ==
  { MachinePrefix \o <<"0">>,
    MachinePrefix \o <<"1">>,
    MachinePrefix \o <<"1", "0">>,
    MachinePrefix \o <<"-", "1">>,
    MachinePrefix \o <<"+", "1">>,
    MachinePrefix,
    MachinePrefix \o <<"x">>,
    MachinePrefix \o <<"0", "-", "l", "x", "d", "-", "1">>,
    <<"0">> }

\* an entry is a plain file, a directory, or a directory with an agent.conf
EntryKinds == {"file", "dir", "conf"}

EntryPairs(cmd, name, kind) ==
  LET path == Under(AgentsPath(cmd), name)
  IN  IF kind = "file" THEN {<<path, FileNode(<<>>)>>}
      ELSE IF kind = "dir" THEN {<<path, DirNode>>}
      ELSE {<<path, DirNode>>, <<path \o AgentConfSuffix, FileNode(GoodDoc)>>}

\* the agents directory missing, a plain file, or a directory holding at
\* most MaxEntries entries
DiscoverLayouts(cmd) ==
  { {}, {<<AgentsPath(cmd), FileNode(<<>>)>>} }
    \cup { {<<AgentsPath(cmd), DirNode>>}
             \cup UNION {EntryPairs(cmd, n, kinds[n]) : n \in DOMAIN kinds} :
           kinds \in UNION {[names -> EntryKinds] :
                              names \in {S \in SUBSET EntryNames : Cardinality(S) <= MaxEntries}} }

CallGetMachineID ==
  /\ call = NoCall
  /\ LET r == getMachineID(c, fs, AgentsDir)
     IN  call' = [NoCall EXCEPT !.fn = "getMachineID", !.sub = AgentsDir,
                                !.ret = r.ret, !.err = r.err]
  /\ UNCHANGED <<c, fs, pc, err, steps, fsOps, logs, db, servers, fs0, raftConfig>>

CallGetStatePassword(machineID) ==
  /\ call = NoCall
  /\ LET r == getStatePassword(c, fs, machineID, AgentsDir)
     IN  call' = [NoCall EXCEPT !.fn = "getStatePassword", !.sub = AgentsDir,
                                !.id = machineID, !.ret = r.ret, !.err = r.err]
  /\ UNCHANGED <<c, fs, pc, err, steps, fsOps, logs, db, servers, fs0, raftConfig>>

DiscoverInit ==
  /\ \E asSnap \in BOOLEAN : c = Command(asSnap, DefaultJujuDir)
  /\ \E agents \in DiscoverLayouts(c) : fs = FsOf(BaseDirs(c) \cup agents)
  /\ Idle

DiscoverNext ==
  \/ CallGetMachineID
  \/ \E machineID \in {<<"0">>, <<"1">>, <<"-", "1">>} : CallGetStatePassword(machineID)

SpecDiscover == DiscoverInit /\ [][DiscoverNext]_vars

\* top-level lines an agent.conf may hold
FieldPool ==
  { Field("statepassword", "str", Password),
    Field("statepassword", "str", <<>>),
    Field("statepassword", "int", <<"1", "7">>),
    Field("statepassword", "null", <<>>),
    Field("statepassword", "seq", <<>>),
    Field("tag", "str", MachinePrefix \o <<"0">>),
    Field("jobs", "seq", <<>>),
    Field("values", "map", <<>>),
    Field("apipassword", "str", <<"z">>) }

Docs == Strings(FieldPool, MaxFields)

CallExtractStatePassword(doc) ==
  /\ call = NoCall
  /\ LET r == extractStatePassword(doc)
     IN  call' = [NoCall EXCEPT !.fn = "extractStatePassword", !.doc = doc,
                                !.ret = r.ret, !.err = r.err]
  /\ UNCHANGED <<c, fs, pc, err, steps, fsOps, logs, db, servers, fs0, raftConfig>>

ExtractInit ==
  /\ c = Command(FALSE, DefaultJujuDir)
  /\ fs = FsOf(BaseDirs(c))
  /\ Idle

ExtractNext == \E doc \in Docs : CallExtractStatePassword(doc)

SpecExtract == ExtractInit /\ [][ExtractNext]_vars

\* the most members a replica set handed to makeRaftServers has
MaxMembers == 2

\* "[::1]:37017"
Addr6 == <<"[", ":", ":", "1", "]", ":", "3", "7", "0", "1", "7">>

\* members a replica set may report: tagged and untagged, with and without
\* a port, with no vote weight and with weights below, at and above 1, and
\* two members carrying the same machine tag
MemberPool ==
  { Member(1, Addr0, MachineTag(<<"0">>), NilVotes),
    Member(2, Addr1, MachineTag(<<"1">>), Votes(0)),
    Member(3, Addr1, MachineTag(<<"0">>), Votes(1)),
    Member(4, Addr6, MachineTag(<<"2">>), Votes(2)),
    Member(5, Addr0, MachineTag(<<"1">>), Votes(-1)),
    Member(6, Addr0, NoTags, NilVotes),
    Member(7, <<"h", "0">>, MachineTag(<<"1">>), NilVotes) }

\* values of the api-port flag
ApiPorts == {ApiPort, 443}

CallMakeRaftServers(members) ==
  /\ call = NoCall
  /\ LET r == makeRaftServers(members, c.apiPort)
     IN  /\ call' = [NoCall EXCEPT !.fn = "makeRaftServers", !.err = r.err]
         /\ servers' = r.servers
  /\ db' = [db EXCEPT !.members = members]
  /\ UNCHANGED <<c, fs, pc, err, steps, fsOps, logs, fs0, raftConfig>>

ServersInit ==
  /\ \E apiPort \in ApiPorts :
       c = [Command(FALSE, DefaultJujuDir) EXCEPT !.apiPort = apiPort]
  /\ fs = FsOf(BaseDirs(c))
  /\ Idle

ServersNext == \E members \in Strings(MemberPool, MaxMembers) : CallMakeRaftServers(members)

SpecServers == ServersInit /\ [][ServersNext]_vars

\* configurations bootstrapRaft is called with: what makeRaftServers makes
\* of the member lists it accepts
Configurations ==
  { makeRaftServers(members, ApiPort).servers :
      members \in {m \in MemberLists : makeRaftServers(m, ApiPort).err = NoErr} }

\* c.bootstrapRaft(servers) called on a command, as Run calls it last
CallBootstrapRaft(conf) ==
  /\ pc = "idle"
  /\ call = NoCall
  /\ call' = [NoCall EXCEPT !.fn = "bootstrapRaft"]
  /\ servers' = conf
  /\ pc' = "logstore"
  /\ UNCHANGED <<c, fs, err, steps, fsOps, logs, db, fs0, raftConfig>>

\* a command with or without a machine ID, on a host with no raft
\* directory, an empty one or an old store
BootstrapInit ==
  /\ \E asSnap \in BOOLEAN, machineID \in MachineIDFlags :
       c = [Command(asSnap, DefaultJujuDir) EXCEPT !.machineID = machineID]
  /\ \E raft \in RaftLayouts(c) : fs = FsOf(BaseDirs(c) \cup raft)
  /\ Idle

BootstrapNext ==
  \/ \E conf \in Configurations : CallBootstrapRaft(conf)
  \/ \E envMkdir \in BOOLEAN, envBolt \in BOOLEAN : LogStore(envMkdir, envBolt)
  \/ \E env \in BOOLEAN : SnapshotStore(env)
  \/ RaftConfig
  \/ \E env \in {"ok", "fail", "torn"} : Bootstrap(env)

SpecBootstrap == BootstrapInit /\ [][BootstrapNext]_vars

----------------------------------------------------------------------------
(* Properties *)

\* everything at or below the raft directory
RaftTree(f, cmd) ==
  LET dir == RaftReal(cmd)
  IN  [p \in {q \in DOMAIN f : q = dir \/ HasPrefix(q, dir \o <<"/">>)} |-> f[p]]

\* the invocation in progress has been through its preflight
PastPreflight == pc \notin {"idle", "preflight"}

\* the invocation ended at its preflight
RejectedAtPreflight == pc = "done" /\ steps = <<"Stat">>

AlreadyExists ==
  Errorf("raft directory already exists - remove it first to show your commitment", RaftShown(c))

BootstrapSteps == {"NewLogStore", "NewSnapshotStore", "makeRaftConfig", "BootstrapCluster"}

ReadOps == {"Stat", "ReadDir", "Open"}

\* C1: a run without dry-run whose raft directory exists when it starts
\* ends at the preflight with the "already exists" error naming the
\* directory: it has made no call but the Stat, dialled nothing, built no
\* server list and left the filesystem as it found it.
C1_PreflightSafety ==
  (PastPreflight /\ ~c.dryRun /\ Exists(fs0, RaftReal(c))) =>
     /\ pc = "done"
     /\ err = AlreadyExists
     /\ steps = <<"Stat">>
     /\ fsOps = <<Part("Stat", RaftReal(c))>>
     /\ fs = fs0
     /\ db = NoSession
     /\ servers = <<>>

C1_Witness ==
  /\ pc = "done"
  /\ ~c.dryRun
  /\ Exists(fs0, RaftReal(c))
  /\ err = AlreadyExists

\* C2: in a dry run the filesystem stays as it was when the run started
\* and only read calls are made, at every point and whatever the outcome;
\* no step of bootstrapRaft is reached; the run never ends at the
\* preflight, whether or not the raft directory exists; and when the
\* server list is built the run returns nil.
C2_DryRunNeverMutates ==
  (pc # "idle" /\ c.dryRun) =>
     /\ fs = fs0
     /\ \A i \in 1..Len(fsOps) : fsOps[i].msg \in ReadOps
     /\ \A i \in 1..Len(steps) : steps[i] \notin BootstrapSteps
     /\ pc \notin {"logstore", "snapstore", "raftconfig", "bootstrap"}
     /\ ~RejectedAtPreflight
     /\ err # AlreadyExists
     /\ (pc = "done" /\ steps[Len(steps)] = "makeRaftServers"
           /\ makeRaftServers(db.members, c.apiPort).err = NoErr) => err = NoErr

C2_Witness ==
  /\ pc = "done"
  /\ c.dryRun
  /\ Exists(fs0, RaftReal(c))
  /\ steps[Len(steps)] = "makeRaftServers"
  /\ servers # <<>>
  /\ err = NoErr

\* a store this tool has bootstrapped: term 1 and a configuration in logs
Bootstrapped(f, cmd) ==
  /\ Exists(f, Under(RaftReal(cmd), LogsName))
  /\ f[Under(RaftReal(cmd), LogsName)].term = 1
  /\ f[Under(RaftReal(cmd), LogsName)].conf # <<>>

\* C3: a successful run without dry-run leaves a bootstrapped store, and
\* once the raft directory exists when an invocation starts, or between
\* invocations, no step of the tool changes anything at or below it: only
\* the operator moving it away does.
C3_StoreNeverMutatedAgain ==
  [][ /\ (pc' = "done" /\ err' = NoErr /\ ~c'.dryRun) =>
           /\ Bootstrapped(fs', c')
           /\ fs'[Under(RaftReal(c'), LogsName)].conf = servers'
      /\ ((Exists(fs0, RaftReal(c)) \/ pc \in {"idle", "done"}) /\ Exists(fs, RaftReal(c))) =>
           \/ RaftTree(fs', c') = RaftTree(fs, c)
           \/ OperatorRemovesRaft ]_vars

\* a later run without dry-run on a store this tool bootstrapped
C3_Witness ==
  /\ pc = "done"
  /\ Bootstrapped(fs0, c)
  /\ ~c.dryRun
  /\ err = AlreadyExists
  /\ fs = fs0

\* the raft directory exists and holds nothing
EmptyRaftDir(f, cmd) ==
  LET dir == RaftReal(cmd)
  IN  /\ Exists(f, dir)
      /\ f[dir].kind = "dir"
      /\ ~\E q \in DOMAIN f : HasPrefix(q, dir \o <<"/">>)

\* C4 as stated: a run without dry-run whose raft directory exists but is
\* empty passes the preflight.
C4_EmptyDirPasses ==
  (PastPreflight /\ ~c.dryRun /\ EmptyRaftDir(fs0, c)) => ~RejectedAtPreflight

\* C4, amended: a run without dry-run is rejected at the preflight exactly
\* when the raft directory exists, empty or not; only a missing directory
\* passes.
C4_AnyExistingDirRejected ==
  (PastPreflight /\ ~c.dryRun) =>
     /\ RejectedAtPreflight <=> Exists(fs0, RaftReal(c))
     /\ EmptyRaftDir(fs0, c) => (RejectedAtPreflight /\ err = AlreadyExists /\ fs = fs0)
     /\ ~Exists(fs0, RaftReal(c)) => (Len(steps) >= 2 \/ pc # "done")

C4_Witness ==
  /\ RejectedAtPreflight
  /\ ~c.dryRun
  /\ EmptyRaftDir(fs0, c)

\* a non-empty run of decimal digits
IsDecimal(s) == s # <<>> /\ \A i \in 1..Len(s) : s[i] \in {Digits[d] : d \in 1..10}

\* a decimal integer as written: digits, with or without a sign in front
IsInteger(s) ==
  IF s # <<>> /\ s[1] \in {"-", "+"} THEN IsDecimal(Tail(s)) ELSE IsDecimal(s)

\* the suffixes of the directories in the agents directory that are named
\* "machine-" followed by a number, for a given reading of "number"
Candidates(f, cmd, IsNumber(_)) ==
  LET agents == AgentsPath(cmd)
  IN  { TrimPrefix(PathBase(q), MachinePrefix) :
          q \in { x \in DOMAIN f :
                    /\ HasPrefix(x, agents \o <<"/">>)
                    /\ PathDir(x) = agents
                    /\ f[x].kind = "dir"
                    /\ HasPrefix(PathBase(x), MachinePrefix)
                    /\ IsNumber(TrimPrefix(PathBase(x), MachinePrefix)) } }

TooManyOrNone(n) == Errorf("expected exactly one machine ID, got", Itoa(n))

\* C5: getMachineID returns an identity and no error exactly when the
\* agents directory holds one candidate, a directory named machine-<N>
\* with N an integer as strconv.Atoi reads it (a plain file with such a
\* name does not count); otherwise it returns no identity, and when the
\* directory could be listed the error is exactly "expected exactly one
\* machine ID, got <count>" with the number of candidates.
C5_ExactlyOneCandidate ==
  call.fn = "getMachineID" =>
    LET cands == Candidates(fs, c, IsInteger)
        n     == Cardinality(cands)
        listed == Exists(fs, AgentsPath(c)) /\ fs[AgentsPath(c)].kind = "dir"
    IN  /\ (call.err = NoErr) <=> (n = 1)
        /\ n = 1 => call.ret \in cands
        /\ n # 1 => call.ret = <<>>
        /\ (listed /\ n # 1) => call.err = TooManyOrNone(n)

\* machine-0 as a directory beside a plain file named like a machine
C5_Witness ==
  /\ call.fn = "getMachineID"
  /\ call.err = NoErr
  /\ call.ret = <<"0">>
  /\ \E q \in DOMAIN fs :
       /\ PathDir(q) = AgentsPath(c)
       /\ fs[q].kind = "file"
       /\ HasPrefix(PathBase(q), MachinePrefix)
       /\ IsDecimal(TrimPrefix(PathBase(q), MachinePrefix))

\* C6 as stated: only a suffix that is a non-negative integer makes a
\* directory a candidate, so getMachineID never returns a suffix that is
\* empty, not a number, negative or signed, and counts no such entry.
C6_OnlyNonNegativeSuffixes ==
  call.fn = "getMachineID" =>
    /\ call.ret # <<>> => IsDecimal(call.ret)
    /\ call.err = NoErr <=> Cardinality(Candidates(fs, c, IsDecimal)) = 1

\* nothing above the path is a plain file: a lookup that finds nothing
\* fails for want of an entry
NoFileAbove(f, path) == \A a \in Ancestors(path) : Exists(f, a) => f[a].kind = "dir"

LastMsg(e) == e[Len(e)].msg

\* C7: getMachineID on an agents directory that does not exist, and
\* getStatePassword for a machine whose agent.conf does not exist, return
\* the empty string and an error, and the error ends in "no such file or
\* directory" (the entry is missing, with no plain file on the way to it).
C7_MissingInputsReported ==
  /\ (call.fn = "getMachineID" /\ ~Exists(fs, AgentsPath(c))) =>
        /\ call.ret = <<>>
        /\ call.err # NoErr
        /\ NoFileAbove(fs, AgentsPath(c)) => LastMsg(call.err) = ENOENT
  /\ (call.fn = "getStatePassword" /\ ~Exists(fs, ConfPath(c, call.id))) =>
        /\ call.ret = <<>>
        /\ call.err # NoErr
        /\ NoFileAbove(fs, ConfPath(c, call.id)) => LastMsg(call.err) = ENOENT

\* the machine's directory is there, its agent.conf is not
C7_Witness ==
  /\ call.fn = "getStatePassword"
  /\ Exists(fs, MachineDir(c, call.id))
  /\ fs[MachineDir(c, call.id)].kind = "dir"
  /\ ~Exists(fs, ConfPath(c, call.id))
  /\ call.ret = <<>>
  /\ LastMsg(call.err) = ENOENT

\* the document decodes into a mapping
Decodes(doc) ==
  /\ doc # <<>>
  /\ \A i, j \in 1..Len(doc) : i # j => doc[i].key # doc[j].key

\* C8: for a document that decodes, extractStatePassword returns the
\* statepassword value and no error when that field is there, is a string
\* and is not empty, whatever other fields there are; otherwise it returns
\* the empty string and "statepassword not found".
C8_ExtractStatePassword ==
  (call.fn = "extractStatePassword" /\ Decodes(call.doc)) =>
    LET good == { i \in 1..Len(call.doc) :
                    /\ call.doc[i].key = "statepassword"
                    /\ call.doc[i].kind = "str"
                    /\ call.doc[i].val # <<>> }
    IN  /\ good # {} => /\ call.err = NoErr
                        /\ \E i \in good : call.ret = call.doc[i].val
        /\ good = {} => /\ call.ret = <<>>
                        /\ call.err = Errorf("statepassword not found", <<>>)

\* the password among a list-valued and a mapping-valued field
C8_Witness ==
  /\ call.fn = "extractStatePassword"
  /\ call.err = NoErr
  /\ call.ret = Password
  /\ \E i \in 1..Len(call.doc) : call.doc[i].kind = "seq"
  /\ \E i \in 1..Len(call.doc) : call.doc[i].kind = "map"

HasDotDot(s) == \E i \in 1..Len(Comps(s, <<>>)) : Comps(s, <<>>)[i] = <<".", ".">>

\* "/extra/slash"
CleanExtraSlash == <<"/", "e", "x", "t", "r", "a", "/", "s", "l", "a", "s", "h">>

PathMsgs ==
  { "raft directory already exists - remove it first to show your commitment", "Will create raft directory",
    "looking for machine ID in", "reading directory", "looking for agent config in",
    "opening agent config file", "extracting state password from",
    "New raft log store created in", "New raft snapshot store created in",
    "New raft cluster store bootstrapped in" }

\* the sub-paths an invocation resolves
SubPathsOf(cmd) ==
  { RaftDir, AgentsDir, AgentConfigPath(cmd.machineID, AgentsDir),
    FilepathJoin(<<RaftDir, LogsName>>), FilepathJoin(<<RaftDir, SnapshotsName>>) }

\* C10 as stated: every path handed to a filesystem call is the remapped
\* path, and every path the program writes into a log line or into the
\* error it returns is the display path, the configured root joined with
\* the sub-path.
C10_TwoPathConventions ==
  /\ \A i \in 1..Len(fsOps) :
       \E sub \in SubPathsOf(c) : fsOps[i].arg = getJujuPath(c, sub, TRUE)
  /\ \A i \in 1..Len(logs) :
       logs[i].msg \in PathMsgs =>
         \E sub \in SubPathsOf(c) : logs[i].arg = getJujuPath(c, sub, FALSE)
  /\ \A i \in 1..Len(err) :
       err[i].msg \in PathMsgs =>
         \E sub \in SubPathsOf(c) : err[i].arg = getJujuPath(c, sub, FALSE)

\* an address net.SplitHostPort splits: a host without colons or brackets,
\* or a bracketed one, then a colon and a port
WellFormed(addr) ==
  \E k \in 1..Len(addr) :
    /\ addr[k] = ":"
    /\ \A j \in (k + 1)..Len(addr) : addr[j] \notin {":", "[", "]"}
    /\ LET h == SubSeq(addr, 1, k - 1)
       IN  \/ \A j \in 1..Len(h) : h[j] \notin {":", "[", "]"}
           \/ /\ Len(h) >= 2
              /\ h[1] = "["
              /\ h[Len(h)] = "]"
              /\ \A j \in 2..(Len(h) - 1) : h[j] \notin {"[", "]"}

\* the api ports as they are written in an address
PortText == [p \in ApiPorts |-> IF p = ApiPort THEN <<"1", "7", "0", "7", "0">>
                                ELSE <<"4", "4", "3">>]

\* a well-formed address with its port replaced (a bracketed host without
\* a colon loses its brackets)
WithApiPort(addr, apiPort) ==
  LET k == CHOOSE i \in 1..Len(addr) :
             addr[i] = ":" /\ \A j \in (i + 1)..Len(addr) : addr[j] # ":"
      h == SubSeq(addr, 1, k - 1)
      inner == SubSeq(h, 2, Len(h) - 1)
      host == IF h # <<>> /\ h[1] = "[" /\ \A j \in 1..Len(inner) : inner[j] # ":"
              THEN inner ELSE h
  IN  host \o <<":">> \o PortText[apiPort]

\* C11: for every member list in which each member carries the
\* juju-machine-id tag and a well-formed address, makeRaftServers returns
\* no error and one server per member in the order of the members, nothing
\* sorted or dropped: server i has member i's tag value as its ID, member
\* i's host with the api port as its address, and is a non-voter exactly
\* when member i has a vote weight and it is below 1.
C11_OrderPreservingMap ==
  (/\ call.fn = "makeRaftServers"
   /\ \A i \in 1..Len(db.members) :
        /\ jujuMachineKey \in DOMAIN db.members[i].Tags
        /\ WellFormed(db.members[i].Address)) =>
     /\ call.err = NoErr
     /\ Len(servers) = Len(db.members)
     /\ \A i \in 1..Len(db.members) :
          LET member == db.members[i]
          IN  /\ servers[i].ID = member.Tags[jujuMachineKey]
              /\ servers[i].Address = WithApiPort(member.Address, c.apiPort)
              /\ servers[i].Suffrage \in {"Voter", "Nonvoter"}
              /\ servers[i].Suffrage = "Nonvoter" <=>
                   (member.Votes.present /\ member.Votes.val < 1)

\* machine 1 before machine 0, the first without a vote: kept in that order
C11_Witness ==
  /\ call.fn = "makeRaftServers"
  /\ call.err = NoErr
  /\ Len(servers) = 2
  /\ servers[1].ID = <<"1">> /\ servers[1].Suffrage = "Nonvoter"
  /\ servers[2].ID = <<"0">> /\ servers[2].Suffrage = "Voter"
  /\ servers[2].Address = <<"h", "0", ":", "1", "7", "0", "7", "0">>

\* a member makeRaftServers cannot turn into a server
Unusable(member) ==
  \/ jujuMachineKey \notin DOMAIN member.Tags
  \/ ~WellFormed(member.Address)

\* C12: when any member of the list, whatever its position, has no
\* juju-machine-id tag or an address that does not split into host and
\* port, makeRaftServers hands Run the empty configuration and an error
\* that carries the Id of the first such member; Run ends there with
\* "constructing raft server configuration", and no step of bootstrapRaft
\* is taken and nothing is written.
C12_FailsClosed ==
  (/\ pc # "idle"
   /\ Len(steps) > 0
   /\ \E n \in 1..Len(steps) : steps[n] = "makeRaftServers"
   /\ \E i \in 1..Len(db.members) : Unusable(db.members[i])) =>
     LET k == CHOOSE i \in 1..Len(db.members) :
                /\ Unusable(db.members[i])
                /\ \A j \in 1..(i - 1) : ~Unusable(db.members[j])
     IN  /\ pc = "done"
         /\ servers = <<>>
         /\ err # NoErr
         /\ err[1].msg = "constructing raft server configuration"
         /\ \E n \in 1..Len(err) :
              /\ err[n].arg = Itoa(db.members[k].Id)
              /\ err[n].msg = IF jujuMachineKey \notin DOMAIN db.members[k].Tags
                              THEN "juju machine id for replset member not found"
                              ELSE "getting base address for replset member"
         /\ steps[Len(steps)] = "makeRaftServers"
         /\ \A n \in 1..Len(steps) : steps[n] \notin BootstrapSteps
         /\ fs = fs0

\* a usable member followed by one without the tag, in a run that would
\* have written
C12_Witness ==
  /\ pc = "done"
  /\ ~c.dryRun
  /\ Len(db.members) = 2
  /\ ~Unusable(db.members[1])
  /\ jujuMachineKey \notin DOMAIN db.members[2].Tags
  /\ steps # <<>>
  /\ steps[Len(steps)] = "makeRaftServers"
  /\ servers = <<>>
  /\ err # NoErr

\* the run has got as far as the dial
AtOrPastDial ==
  \/ pc \in {"dial", "fetch", "servers", "logstore", "snapstore", "raftconfig", "bootstrap"}
  \/ db.dials > 0

\* C13: whenever a run is at or past the database dial, machineID and
\* password are both non-empty, given as flags or discovered, and the dial
\* was made with a user name longer than "machine-" and a non-empty
\* password; a run whose discovery failed ends there with an error and
\* has dialled nothing.
C13_ResolvedBeforeDial ==
  /\ AtOrPastDial => (c.machineID # <<>> /\ c.password # <<>>)
  /\ db.dials > 0 =>
       /\ Len(db.username) > Len(MachinePrefix)
       /\ db.password # <<>>
  /\ (pc = "done" /\ steps # <<>>
        /\ steps[Len(steps)] \in {"getMachineID", "getStatePassword"}) =>
       /\ err # NoErr
       /\ db = NoSession

\* both values came from discovery and the dial was made with them
C13_Witness ==
  /\ db.dials > 0
  /\ \E n \in 1..Len(steps) : steps[n] = "getMachineID"
  /\ \E n \in 1..Len(steps) : steps[n] = "getStatePassword"
  /\ c.machineID = <<"0">>
  /\ c.password = Password

\* how often a step occurs among the steps of the run
Count(name) == Cardinality({n \in 1..Len(steps) : steps[n] = name})

\* C14: a run dials at most once and never holds more than one session;
\* a session is open only between the dial and the return of
\* getReplicaSetMembers, where it has served one CurrentMembers and has
\* been closed, whether that fetch succeeded or failed; none is open while
\* the server list is built, during bootstrapRaft or when the run has
\* ended; when the dial fails nothing is fetched or closed and the run
\* ends with the connection error.
C14_SessionLifecycle ==
  /\ db.dials <= 1
  /\ db.open \in {0, 1}
  /\ db.open = 1 <=> pc = "fetch"
  /\ db.fetches = Count("CurrentMembers")
  /\ db.closes = Count("Close")
  /\ db.fetches <= 1
  /\ db.closes = db.fetches
  /\ db.open + db.closes <= db.dials
  /\ \A n \in 1..Len(steps) :
       steps[n] = "CurrentMembers" => (n < Len(steps) /\ steps[n + 1] = "Close")
  /\ pc \in {"servers", "logstore", "snapstore", "raftconfig", "bootstrap"} =>
       (db.dials = 1 /\ db.fetches = 1 /\ db.closes = 1)
  /\ (pc = "done" /\ steps # <<>> /\ steps[Len(steps)] = "dial") =>
       /\ db.open = 0 /\ db.fetches = 0 /\ db.closes = 0
       /\ err # NoErr
       /\ \E n \in 1..Len(err) : err[n].msg = "connecting to MongoDB"

\* the fetch failed on an open session, and the session is closed
C14_Witness ==
  /\ pc = "done"
  /\ steps # <<>>
  /\ steps[Len(steps)] = "Close"
  /\ err # NoErr
  /\ db.dials = 1
  /\ db.closes = 1
  /\ db.open = 0

\* the steps of Run and bootstrapRaft in the order of the program text
StepOrder ==
  <<"Stat", "getMachineID", "getStatePassword", "dial", "CurrentMembers", "Close",
    "makeRaftServers", "NewLogStore", "NewSnapshotStore", "makeRaftConfig",
    "BootstrapCluster">>

StepPos(name) == CHOOSE i \in 1..Len(StepOrder) : StepOrder[i] = name

\* the steps taken are in program order, none twice, and none is left out
\* but a discovery the flags made unnecessary
InOrder(taken) ==
  /\ taken # <<>> => taken[1] = "Stat"
  /\ \A n \in 2..Len(taken) :
       /\ StepPos(taken[n - 1]) < StepPos(taken[n])
       /\ \A k \in (StepPos(taken[n - 1]) + 1)..(StepPos(taken[n]) - 1) :
            StepOrder[k] \in {"getMachineID", "getStatePassword"}

\* C15: the steps of a run are taken in the one order preflight, identity,
\* credential, dial and fetch, server list, then log store, snapshot store,
\* raft config and BootstrapCluster, each at most once; a run that ends
\* without error ended at the server list when it was a dry run and at
\* BootstrapCluster otherwise; an error ends the run at the step that
\* raised it; and once a run has ended nothing further is attempted until
\* the command is invoked again.
C15_LinearNoRetry ==
  [][ /\ InOrder(steps')
      /\ err' # NoErr => pc' = "done"
      /\ (pc' = "done" /\ err' = NoErr) =>
            steps'[Len(steps')] = IF c'.dryRun THEN "makeRaftServers" ELSE "BootstrapCluster"
      /\ (pc # "done" /\ pc' # "idle" /\ pc' # "preflight") =>
            /\ Len(steps') <= Len(steps) + 2
            /\ SubSeq(steps', 1, Len(steps)) = steps
      /\ pc = "done" => (steps' = steps \/ pc' \in {"preflight", "idle"}) ]_vars

\* discovery, dial and fetch went through, the log store was made, and the
\* run ended at the snapshot store that could not be made
C15_Witness ==
  /\ pc = "done"
  /\ err # NoErr
  /\ steps = <<"Stat", "getMachineID", "getStatePassword", "dial", "CurrentMembers",
               "Close", "makeRaftServers", "NewLogStore", "NewSnapshotStore">>

\* the run ended with an error at the given step
FailedAt(name) ==
  /\ pc = "done"
  /\ err # NoErr
  /\ steps # <<>>
  /\ steps[Len(steps)] = name

Mentions(e, msg) == \E n \in 1..Len(e) : e[n].msg = msg

\* C16 as stated: whichever step of bootstrapRaft fails, the error it
\* returns is annotated "bootstrapping raft cluster".
C16_AlwaysBootstrappingAnnotation ==
  \A name \in BootstrapSteps :
    FailedAt(name) => Mentions(err, "bootstrapping raft cluster")

\* the annotation bootstrapRaft puts on the error of each of its steps
StageAnnotation ==
  [name \in BootstrapSteps |->
     CASE name = "NewLogStore"      -> "making log store"
       [] name = "NewSnapshotStore" -> "making snapshot store"
       [] name = "makeRaftConfig"   -> "making raft config"
       [] name = "BootstrapCluster" -> "bootstrapping raft cluster"]

\* C16, amended: a failure of a step of bootstrapRaft ends the call at
\* that step, and the error is annotated with the name of the step that
\* failed: "making log store", "making snapshot store", "making raft
\* config", and "bootstrapping raft cluster" only for the failure of
\* BootstrapCluster itself.
C16_AnnotatedByStep ==
  \A name \in BootstrapSteps :
    FailedAt(name) =>
      /\ err[1].msg = StageAnnotation[name]
      /\ Mentions(err, "bootstrapping raft cluster") <=> name = "BootstrapCluster"
      /\ Len(err) >= 2

\* the snapshot store could not be made
C16_Witness ==
  /\ FailedAt("NewSnapshotStore")
  /\ err[1].msg = "making snapshot store"
  /\ ~Mentions(err, "bootstrapping raft cluster")

\* the raft directory, its logs file and its snapshots directory are there
StoresOnDisk(f, cmd) ==
  /\ Exists(f, RaftReal(cmd))
  /\ Exists(f, Under(RaftReal(cmd), LogsName))
  /\ Exists(f, Under(RaftReal(cmd), SnapshotsName))

TornStore(f, cmd) ==
  /\ Exists(f, Under(RaftReal(cmd), LogsName))
  /\ f[Under(RaftReal(cmd), LogsName)].term = 1
  /\ f[Under(RaftReal(cmd), LogsName)].conf = <<>>

\* C18: no step of the tool removes anything from the filesystem or turns
\* a directory into a file: whatever a failed bootstrapRaft created is
\* still there when the run ends and when the next one starts; and every
\* later run without dry-run that finds the raft directory ends at its
\* preflight with the "already exists" error, leaving everything in
\* place, until the operator moves the directory away.
C18_NoCleanup ==
  [][ /\ ~OperatorRemovesRaft =>
           \A p \in DOMAIN fs : p \in DOMAIN fs' /\ fs'[p].kind = fs[p].kind
      /\ (pc = "done" /\ pc' = "preflight") => fs0' = fs
      /\ (pc' \notin {"idle", "preflight"} /\ ~c'.dryRun /\ Exists(fs0', RaftReal(c'))) =>
           /\ pc' = "done"
           /\ steps' = <<"Stat">>
           /\ err' = <<Part("raft directory already exists - remove it first to show your commitment",
                            RaftShown(c'))>>
           /\ fs' = fs0' ]_vars

\* a run rejected at its preflight by what a failed BootstrapCluster of an
\* earlier run left behind
C18_Witness ==
  /\ RejectedAtPreflight
  /\ ~c.dryRun
  /\ TornStore(fs0, c)
  /\ Exists(fs0, Under(RaftReal(c), SnapshotsName))
  /\ fs = fs0
  /\ err # NoErr

\* the non-empty string values of statepassword in the agent.conf of a
\* machine
StatePasswordsOf(f, cmd, id) ==
  IF Exists(f, ConfPath(cmd, id))
  THEN { f[ConfPath(cmd, id)].doc[i].val :
           i \in { j \in 1..Len(f[ConfPath(cmd, id)].doc) :
                     /\ f[ConfPath(cmd, id)].doc[j].key = "statepassword"
                     /\ f[ConfPath(cmd, id)].doc[j].kind = "str" } } \ {<<>>}
  ELSE {}

\* C19: getMachineID is called exactly when machineID is empty as Run gets
\* to the identity step, and getStatePassword exactly when password is
\* empty at the credential step, where it opens the agent.conf of the
\* machineID the run has by then, given or discovered; a non-empty
\* machineID or password is never changed during a run; a value that is
\* filled in is one found on disk (a candidate directory's suffix, the
\* statepassword of that machine's agent.conf), never a default; and the
\* dial uses "machine-<machineID>" and the password, and the raft config
\* the machineID as LocalID, as they then stand.
C19_DiscoveryOnlyWhenUnset ==
  [][ /\ (pc = "identity" /\ pc' # "identity") =>
           /\ c.machineID = <<>> <=> steps' = Append(steps, "getMachineID")
           /\ c.machineID # <<>> => (c' = c /\ steps' = steps /\ fsOps' = fsOps)
      /\ (pc = "credential" /\ pc' # "credential") =>
           /\ c.password = <<>> <=> steps' = Append(steps, "getStatePassword")
           /\ c.password = <<>> =>
                fsOps' = Append(fsOps, Part("Open", ConfPath(c, c.machineID)))
           /\ c.password # <<>> => (c' = c /\ steps' = steps /\ fsOps' = fsOps)
      /\ pc \notin {"idle", "done"} =>
           /\ c.machineID # <<>> => c'.machineID = c.machineID
           /\ c.password # <<>> => c'.password = c.password
           /\ c'.machineID # c.machineID =>
                (pc = "identity" /\ c'.machineID \in Candidates(fs, c, IsInteger))
           /\ c'.password # c.password =>
                (pc = "credential" /\ c'.password \in StatePasswordsOf(fs, c, c.machineID))
      /\ (pc = "dial" /\ pc' # "dial") =>
           /\ db'.username = MachinePrefix \o c.machineID
           /\ db'.password = c.password
      /\ (pc = "raftconfig" /\ pc' = "bootstrap") =>
           raftConfig'.LocalID = c.machineID ]_vars

\* machine-id 0 was given on a host that also has machine-1; only the
\* password was looked up, in machine-0's agent.conf, and the dial was
\* made as machine-0
C19_Witness ==
  /\ db.dials = 1
  /\ Count("getMachineID") = 0
  /\ Count("getStatePassword") = 1
  /\ c.machineID = <<"0">>
  /\ c.password = Password
  /\ db.username = MachinePrefix \o <<"0">>
  /\ Exists(fs, MachineDir(c, <<"1">>))
  /\ fs[MachineDir(c, <<"1">>)].kind = "dir"

=============================================================================
